---- MODULE Spec2Model ----
(***************************************************************************)
(* A model of src/read/seek.rs of async_zip: the seeking ZIP reader.       *)
(*                                                                         *)
(*   ZipFileReader::new  -> read_cd -> read_cd_entry     (opening)         *)
(*   ZipFileReader::entry, ::entry_reader                (the handle)      *)
(*                                                                         *)
(* The byte source is a sequence of segments, each a run of bytes of a     *)
(* known length: a 4-byte signature, the fixed part of one of the three    *)
(* records, a text (a name or a comment) or a run of zero bytes.  Offsets  *)
(* are byte offsets, and every length and width is the real one.           *)
(***************************************************************************)
EXTENDS Integers, Sequences, FiniteSets, TLC

\* ------------------------------------------------------------ constants

U16Max == 65535
SigWidth == 4
EocdFixedSize == 18
CdhFixedSize == 42
LfhFixedSize == 26
DescriptorSize == 12
SUGGESTED_BUFFER_SIZE == 8192
MAX_ENDING_LENGTH == U16Max - 2

END_OF_CENTRAL_DIRECTORY == "END_OF_CENTRAL_DIRECTORY"
CENTRAL_DIRECTORY_FILE_HEADER == "CENTRAL_DIRECTORY_FILE_HEADER"
LOCAL_FILE_HEADER == "LOCAL_FILE_HEADER"
DATA_DESCRIPTOR == "DATA_DESCRIPTOR"

KnownCompression == {0, 8, 12, 14, 93, 95}

\* ------------------------------------------------------------ bounds

MaxEntries == 2
MaxByteReads == 1

\* ------------------------------------------------------------ the byte source

Min(a, b) == IF a < b THEN a ELSE b
Max(a, b) == IF a < b THEN b ELSE a

\* The length in bytes of a sequence of segments.
RECURSIVE SegsLen(_)
SegsLen(segs) ==
    IF segs = <<>> THEN 0 ELSE Head(segs).n + SegsLen(Tail(segs))

\* A source: its segments, the byte offset at which each begins, its length.
Source(segs) ==
    [segs |-> segs,
     start |-> [i \in 1..Len(segs) |-> SegsLen(SubSeq(segs, 1, i - 1))],
     len |-> SegsLen(segs)]

StreamLen(src) == src.len

\* The segment that begins exactly at offset p (0: none does).
SegAt(src, p) ==
    LET S == {i \in 1..Len(src.segs) : src.start[i] = p}
    IN  IF S = {} THEN 0 ELSE CHOOSE i \in S : TRUE

\* The segment that holds the byte at offset p (0: p is past the end).
SegOver(src, p) ==
    LET S == {i \in 1..Len(src.segs) :
                 src.start[i] <= p /\ p < src.start[i] + src.segs[i].n}
    IN  IF S = {} THEN 0 ELSE CHOOSE i \in S : TRUE

\* Whether the bytes [p, p + n) are zero bytes of one run.
InZeros(src, p, n) ==
    LET i == SegOver(src, p)
    IN  /\ i # 0
        /\ src.segs[i].k = "bytes"
        /\ p + n <= src.start[i] + src.segs[i].n

\* The offsets of the occurrences of signature sig at or after offset from.
SigOffsets(src, sig, from) ==
    {src.start[i] : i \in {j \in 1..Len(src.segs) :
        /\ src.segs[j].k = "sig"
        /\ src.segs[j].f.sig = sig
        /\ src.start[j] >= from}}

SetMin(S) == CHOOSE x \in S : \A y \in S : x <= y
SetMax(S) == CHOOSE x \in S : \A y \in S : y <= x

\* The first occurrence of sig at or after from (-1: there is none).
FindSig(src, sig, from) ==
    LET S == SigOffsets(src, sig, from) IN IF S = {} THEN -1 ELSE SetMin(S)

\* ------------------------------------------------------------ record decoders
\* The collaborators of seek.rs: each reads at offset p and answers
\* [ok, v, err, pos, garbled]; pos is the offset after the bytes consumed.
\* garbled marks a decode of bytes that are neither the record asked for nor
\* zero bytes: no input of this model makes the reader do that.

Ok(v, pos) == [ok |-> TRUE, v |-> v, err |-> "", pos |-> pos, garbled |-> FALSE]
Garbled(v, pos) == [ok |-> TRUE, v |-> v, err |-> "", pos |-> pos, garbled |-> TRUE]
Fail(e) == [ok |-> FALSE, v |-> 0, err |-> e, pos |-> 0, garbled |-> FALSE]

ZeroEocd ==
    [disk_num |-> 0, start_cent_dir_disk |-> 0, num_of_entries_disk |-> 0,
     num_of_entries |-> 0, size_cent_dir |-> 0, cent_dir_offset |-> 0,
     file_comm_length |-> 0]

ZeroCdh ==
    [compression |-> 0, data_descriptor |-> FALSE, mod_time |-> 0, mod_date |-> 0,
     crc |-> 0, compressed_size |-> 0, uncompressed_size |-> 0,
     file_name_length |-> 0, extra_field_length |-> 0, file_comment_length |-> 0,
     lh_offset |-> 0]

ZeroLfh ==
    [compression |-> 0, data_descriptor |-> FALSE, crc |-> 0, compressed_size |-> 0,
     uncompressed_size |-> 0, file_name_length |-> 0, extra_field_length |-> 0]

\* A fixed-layout record of `size` bytes read at p.
ReadRecord(src, p, kind, size, zero) ==
    IF p + size > StreamLen(src) THEN Fail("UpstreamReadError")
    ELSE LET i == SegAt(src, p)
         IN  IF i # 0 /\ src.segs[i].k = kind THEN Ok(src.segs[i].f, p + size)
             ELSE IF InZeros(src, p, size) THEN Ok(zero, p + size)
             ELSE Garbled(zero, p + size)

EocdFromReader(src, p) == ReadRecord(src, p, "eocd", EocdFixedSize, ZeroEocd)
CdhFromReader(src, p) == ReadRecord(src, p, "cdh", CdhFixedSize, ZeroCdh)
LfhFromReader(src, p) == ReadRecord(src, p, "lfh", LfhFixedSize, ZeroLfh)

\* utils::assert_signature: the next 4 bytes are the signature, or an error.
AssertSignature(src, p, sig) ==
    IF p + SigWidth > StreamLen(src) THEN Fail("UpstreamReadError")
    ELSE LET i == SegAt(src, p)
         IN  IF i # 0 /\ src.segs[i].k = "sig"
             THEN IF src.segs[i].f.sig = sig THEN Ok(sig, p + SigWidth)
                  ELSE Fail("UnexpectedHeaderError")
             ELSE IF InZeros(src, p, SigWidth) THEN Fail("UnexpectedHeaderError")
             ELSE [Fail("UnexpectedHeaderError") EXCEPT !.garbled = TRUE]

\* A text is its identity and its length in bytes.
Str(id, n) == [id |-> id, n |-> n]
EmptyStr == Str("", 0)

\* utils::read_string: the n bytes at p as text.
ReadString(src, p, n) ==
    IF n = 0 THEN Ok(EmptyStr, p)
    ELSE IF p + n > StreamLen(src) THEN Fail("UpstreamReadError")
    ELSE LET i == SegAt(src, p)
         IN  IF i # 0 /\ src.segs[i].k = "text" /\ src.segs[i].n = n
             THEN Ok(Str(src.segs[i].f.id, n), p + n)
             ELSE Garbled(Str("?", n), p + n)

\* utils::read_bytes: the n bytes at p, uninterpreted (kept as their extent).
ReadBytes(src, p, n) ==
    IF p + n > StreamLen(src) THEN Fail("UpstreamReadError")
    ELSE Ok([at |-> p, n |-> n], p + n)

\* Compression::from_u16.
CompressionFromU16(id) ==
    IF id \in KnownCompression THEN Ok(id, 0) ELSE Fail("UnsupportedCompressionError")

\* AsyncDelimiterReader::read with a buffer of `want` bytes at offset p: the
\* count of bytes handed out before the delimiter or the end of the source
\* (0: the delimiter is next, and is consumed, or the source has ended).
DelimRead(src, p, delim, want) ==
    LET m == FindSig(src, delim, p)
        stop == IF m = -1 THEN StreamLen(src) ELSE m
        n == Min(want, Max(stop - p, 0))
    IN  [n |-> n,
         matched |-> (n = 0 /\ m # -1),
         pos |-> IF n = 0 /\ m # -1 THEN m + SigWidth ELSE p + n]

\* ------------------------------------------------------------ the inputs
\* What a writer put into the byte source: the archives the reader is run on.
\* An entry is written from a template: the name, the lengths of the name and
\* of the extra field, the payload, the flag and sizes of its directory copy.

Templates == <<
    \* 1: stored, sizes known
    [name |-> "a", nameLen |-> 1, extraLen |-> 0, pay |-> 3, nested |-> FALSE,
     dd |-> FALSE, ddSigs |-> 0, dirCsize |-> 3, locCsize |-> 3, method |-> 0],
    \* 2: streamed, a descriptor follows the payload, placeholder local sizes
    [name |-> "b", nameLen |-> 1, extraLen |-> 2, pay |-> 2, nested |-> FALSE,
     dd |-> TRUE, ddSigs |-> 1, dirCsize |-> 2, locCsize |-> 0, method |-> 8],
    \* 3: same name as 1; streamed, the payload holds the descriptor signature
    [name |-> "a", nameLen |-> 1, extraLen |-> 1, pay |-> 1, nested |-> FALSE,
     dd |-> TRUE, ddSigs |-> 2, dirCsize |-> 7, locCsize |-> 0, method |-> 0],
    \* 4: the directory records a size larger than what the source holds
    [name |-> "b", nameLen |-> 1, extraLen |-> 0, pay |-> 2, nested |-> FALSE,
     dd |-> FALSE, ddSigs |-> 0, dirCsize |-> 200000, locCsize |-> 2, method |-> 0],
    \* 5: the flag is set and no descriptor signature follows
    [name |-> "c", nameLen |-> 1, extraLen |-> 0, pay |-> 2, nested |-> FALSE,
     dd |-> TRUE, ddSigs |-> 0, dirCsize |-> 1, locCsize |-> 5, method |-> 0],
    \* 6: no name; the local record holds a size the directory does not
    [name |-> "", nameLen |-> 0, extraLen |-> 0, pay |-> 1, nested |-> FALSE,
     dd |-> FALSE, ddSigs |-> 0, dirCsize |-> 1, locCsize |-> 9, method |-> 0],
    \* 7: the longest name, no extra field
    [name |-> "L", nameLen |-> U16Max, extraLen |-> 0, pay |-> 2, nested |-> FALSE,
     dd |-> FALSE, ddSigs |-> 0, dirCsize |-> 2, locCsize |-> 2, method |-> 0],
    \* 8: the longest name and one byte of extra field
    [name |-> "L", nameLen |-> U16Max, extraLen |-> 1, pay |-> 2, nested |-> FALSE,
     dd |-> FALSE, ddSigs |-> 0, dirCsize |-> 2, locCsize |-> 2, method |-> 0],
    \* 9: the longest name and the longest extra field
    [name |-> "L", nameLen |-> U16Max, extraLen |-> U16Max, pay |-> 2, nested |-> FALSE,
     dd |-> TRUE, ddSigs |-> 1, dirCsize |-> 2, locCsize |-> 0, method |-> 0],
    \* 10: the payload is a stored empty archive (its trailer record)
    [name |-> "z", nameLen |-> 1, extraLen |-> 0, pay |-> 0, nested |-> TRUE,
     dd |-> FALSE, ddSigs |-> 0, dirCsize |-> 22, locCsize |-> 22, method |-> 0],
    \* 11: a stored empty archive and then more payload than the scan window
    [name |-> "z", nameLen |-> 1, extraLen |-> 0, pay |-> 70000, nested |-> TRUE,
     dd |-> FALSE, ddSigs |-> 0, dirCsize |-> 70022, locCsize |-> 70022, method |-> 0]
>>

SmallTemplates == 1..6
BigTemplates == 7..11

Sig(s) == [k |-> "sig", n |-> SigWidth, f |-> [sig |-> s]]
Zeros(id, n) == [k |-> "bytes", n |-> n, f |-> [id |-> id]]
Text(id, n) == [k |-> "text", n |-> n, f |-> [id |-> id]]

\* The segments of positive length: an empty field takes no room.
NonEmpty(segs) == SelectSeq(segs, LAMBDA s : s.n > 0)

LfhRecord(t) ==
    [k |-> "lfh", n |-> LfhFixedSize,
     f |-> [compression |-> t.method, data_descriptor |-> t.dd,
            crc |-> IF t.dd THEN 0 ELSE 7, compressed_size |-> t.locCsize,
            uncompressed_size |-> t.locCsize,
            file_name_length |-> t.nameLen, extra_field_length |-> t.extraLen]]

EocdRecord(disk, start, onDisk, total, size, offset, clen) ==
    [k |-> "eocd", n |-> EocdFixedSize,
     f |-> [disk_num |-> disk, start_cent_dir_disk |-> start,
            num_of_entries_disk |-> onDisk, num_of_entries |-> total,
            size_cent_dir |-> size, cent_dir_offset |-> offset,
            file_comm_length |-> clen]]

\* The payload of an entry and what follows it up to the next local record.
PayloadSegs(t) ==
    (IF t.nested
       THEN <<Sig(END_OF_CENTRAL_DIRECTORY), EocdRecord(0, 0, 0, 0, 0, 0, 0)>>
       ELSE <<>>)
    \o <<Zeros("data", t.pay)>>
    \o (IF t.ddSigs = 2 THEN <<Sig(DATA_DESCRIPTOR), Zeros("data", 2)>> ELSE <<>>)
    \o (IF t.ddSigs >= 1
          THEN <<Sig(DATA_DESCRIPTOR), Zeros("descriptor", DescriptorSize)>>
          ELSE <<>>)

LocalSegs(t) ==
    NonEmpty(<<Sig(LOCAL_FILE_HEADER), LfhRecord(t), Text(t.name, t.nameLen),
               Zeros("extra", t.extraLen)>> \o PayloadSegs(t))

\* The directory copy of an entry whose local record is at offset; bad is "" or
\* the way the record was damaged.
DirSegs(t, offset, bad) ==
    NonEmpty(<<IF bad = "signature" THEN Zeros("junk", SigWidth)
               ELSE Sig(CENTRAL_DIRECTORY_FILE_HEADER),
               [k |-> "cdh", n |-> CdhFixedSize,
                f |-> [compression |-> IF bad = "compression" THEN 99 ELSE t.method,
                       data_descriptor |-> t.dd, mod_time |-> 0, mod_date |-> 33,
                       crc |-> 7, compressed_size |-> t.dirCsize,
                       uncompressed_size |-> t.dirCsize,
                       file_name_length |->
                           IF bad = "truncated" THEN U16Max ELSE t.nameLen,
                       extra_field_length |-> t.extraLen,
                       file_comment_length |-> 0,
                       lh_offset |-> offset]],
               Text(t.name, t.nameLen), Zeros("extra", t.extraLen)>>)

RECURSIVE LocalPart(_)
LocalPart(ts) ==
    IF ts = <<>> THEN <<>> ELSE LocalSegs(Templates[Head(ts)]) \o LocalPart(Tail(ts))

\* The offset of the local record of entry i (from 1) of the list ts.
LocalOffset(ts, i) == SegsLen(LocalPart(SubSeq(ts, 1, i - 1)))

RECURSIVE DirPart(_, _, _)
DirPart(ts, i, w) ==
    IF i > Len(ts) THEN <<>>
    ELSE DirSegs(Templates[ts[i]], LocalOffset(ts, i),
                 IF w.badAt = i THEN w.bad ELSE "")
         \o DirPart(ts, i + 1, w)

\* The source written for w: the archive, or w.raw zero bytes and no archive.
Write(w) ==
    IF w.raw >= 0 THEN NonEmpty(<<Zeros("raw", w.raw)>>)
    ELSE LET local == LocalPart(w.ents)
             dir == DirPart(w.ents, 1, w)
         IN  local \o dir
             \o (IF w.trailer
                   THEN NonEmpty(<<Sig(END_OF_CENTRAL_DIRECTORY),
                          EocdRecord(w.disk, w.start, Len(w.ents) + w.onDiskDelta,
                                     Len(w.ents) + w.extraCount, SegsLen(dir),
                                     SegsLen(local), w.clen),
                          Text("comment", w.clen)>>)
                   ELSE <<>>)

Plain(ents) ==
    [ents |-> ents, clen |-> 0, badAt |-> 0, bad |-> "", disk |-> 0, start |-> 0,
     onDiskDelta |-> 0, extraCount |-> 0, trailer |-> TRUE, raw |-> -1]

\* The sequences over S of length at most n.
RECURSIVE SeqsUpTo(_, _)
SeqsUpTo(S, n) ==
    IF n = 0 THEN {<<>>}
    ELSE LET shorter == SeqsUpTo(S, n - 1)
         IN  shorter \cup {Append(q, x) : q \in shorter, x \in S}

CommentLens == {1, U16Max - 24, U16Max - 23, U16Max}
RawLens == {0, 1, 3, 21, MAX_ENDING_LENGTH, 70000}
Damage == {"signature", "compression", "truncated"}

Inputs ==
    \* well-formed archives of small entries, and ones with one large entry
    {Plain(e) : e \in SeqsUpTo(SmallTemplates, MaxEntries)}
    \cup {Plain(<<t>>) : t \in BigTemplates}
    \cup {Plain(<<t, 1>>) : t \in BigTemplates}
    \* trailer comments, up to the longest
    \cup {[Plain(<<1>>) EXCEPT !.clen = n] : n \in CommentLens}
    \* one damaged directory record; one record fewer than the trailer counts
    \cup UNION {{[Plain(e) EXCEPT !.badAt = i, !.bad = b] :
                    i \in 1..Len(e), b \in Damage} : e \in {<<1>>, <<1, 2>>}}
    \cup {[Plain(<<1>>) EXCEPT !.extraCount = 1, !.onDiskDelta = 1]}
    \* trailers of a spanned archive
    \cup {[Plain(<<1>>) EXCEPT !.clen = 1, !.disk = d, !.start = s,
                               !.onDiskDelta = k] :
             d \in 0..1, s \in 0..1, k \in 0..1}
    \* sources that hold no trailer signature, or none in the scan window
    \cup {[Plain(<<>>) EXCEPT !.raw = n] : n \in RawLens}
    \cup {[Plain(<<1>>) EXCEPT !.trailer = FALSE],
          [Plain(<<11>>) EXCEPT !.trailer = FALSE]}

\* ------------------------------------------------------------ the state

VARIABLES
    written,      \* what the writer was asked to write (never read by the reader)
    source,       \* the bytes of the seekable source
    build,        \* "debug": arithmetic overflow panics; "release": it wraps
    pc,           \* "new" .. "entries": inside read_cd; "open": a handle exists;
                  \* "failed": new returned an error; "panicked"
    cursor,       \* the seek position of the source
    matched,      \* AsyncDelimiterReader::matched of read_cd's scanner
    eocdh,        \* read_cd's eocdh
    comment,      \* read_cd's comment
    entries,      \* read_cd's entries
    left,         \* iterations left of read_cd's for loop
    handle,       \* the ZipFileReader returned by new: SeekMethod's entries, comment
    err,          \* the error the last call returned ("": none)
    io,           \* what the current or last call did to the source
    rd,           \* the ZipEntryReader that borrows the source
    last,         \* the last call on the handle, and the state it started from
    lookup,       \* the result of the last entry(name)
    openCursor,   \* the seek position new left behind
    garbled       \* a decoder was run on bytes that are no record

vars == <<written, source, build, pc, cursor, matched, eocdh, comment, entries,
          left, handle, err, io, rd, last, lookup, openCursor, garbled>>

Builds == {"debug", "release"}

None == [some |-> FALSE, v |-> EmptyStr]
Some(s) == [some |-> TRUE, v |-> s]

NoHandle == [open |-> FALSE, entries |-> <<>>, comment |-> None]
NoReader == [open |-> FALSE, index |-> 0, mode |-> "", limit |-> 0, from |-> 0,
             got |-> 0, done |-> FALSE]
NoCall == [op |-> "", index |-> 0, prev |-> -1, moved |-> FALSE,
           afterOutOfBounds |-> FALSE]
NoLookup == [asked |-> FALSE, name |-> EmptyStr, found |-> FALSE, index |-> 0]

Init ==
    /\ written \in Inputs
    /\ source = Source(Write(written))
    /\ build \in Builds
    /\ pc = "new"
    /\ cursor = 0
    /\ matched = FALSE
    /\ eocdh = ZeroEocd
    /\ comment = None
    /\ entries = <<>>
    /\ left = 0
    /\ handle = NoHandle
    /\ err = ""
    /\ io = {}
    /\ rd = NoReader
    /\ last = NoCall
    /\ lookup = NoLookup
    /\ openCursor = 0
    /\ garbled = FALSE

inputs == <<written, source, build>>
afterOpen == <<rd, last, lookup>>

\* ------------------------------------------------------------ read_cd

\* length.saturating_sub(MAX_ENDING_LENGTH)
SeekTo(length) == Max(length - MAX_ENDING_LENGTH, 0)

\* read_cd returns Err(e) through `?` or `return`, and so does new: no handle.
OpenFails(e) ==
    /\ pc' = "failed"
    /\ err' = e
    /\ UNCHANGED <<handle, openCursor>>

\* let length = seek(End(0)); seek(Start(seek_to)); the scanner is built.
SeekToWindow ==
    /\ pc = "new"
    /\ cursor' = SeekTo(StreamLen(source))
    /\ matched' = FALSE
    /\ io' = {"seek"}
    /\ pc' = "scan"
    /\ UNCHANGED <<inputs, eocdh, comment, entries, left, handle, err, afterOpen,
                   openCursor, garbled>>

\* The sizes a read of the source may return for a buffer: all of it, or less.
ReadSizes == {SUGGESTED_BUFFER_SIZE, SUGGESTED_BUFFER_SIZE \div 2}

\* A scan that runs on to the last occurrence of the trailer signature.
ScanStepLast(src, p, want) ==
    LET S == SigOffsets(src, END_OF_CENTRAL_DIRECTORY, p)
        m == IF S = {} THEN -1 ELSE SetMax(S)
        stop == IF m = -1 THEN StreamLen(src) ELSE m
        n == Min(want, Max(stop - p, 0))
    IN  [n |-> n, matched |-> (n = 0 /\ m # -1),
         pos |-> IF n = 0 /\ m # -1 THEN m + SigWidth ELSE p + n]

\* One reader.read(&mut buffer) of the scanner over the trailer signature.
ScanStep(src, p, want) == DelimRead(src, p, END_OF_CENTRAL_DIRECTORY, want)

\* One iteration of the loop: read, and break when the read returns 0.
ScanRead ==
    /\ pc = "scan"
    /\ \E want \in ReadSizes :
         LET r == ScanStep(source, cursor, want)
         IN  /\ cursor' = r.pos
             /\ matched' = r.matched
             /\ pc' = IF r.n = 0 THEN "scanned" ELSE "scan"
    /\ io' = io \cup {"read"}
    /\ UNCHANGED <<inputs, eocdh, comment, entries, left, handle, err, afterOpen,
                   openCursor, garbled>>

TrailerFoundAlways(m) == TRUE

\* if !reader.matched() { return Err(..) }
TrailerFound(m) == m

\* After the loop: the missing-trailer error, or reset and decode the trailer.
TrailerDecode ==
    /\ pc = "scanned"
    /\ IF ~TrailerFound(matched)
         THEN /\ OpenFails("UnexpectedHeaderError")
              /\ UNCHANGED <<cursor, eocdh, io, garbled>>
         ELSE LET r == EocdFromReader(source, cursor)
              IN  /\ io' = io \cup {"read_eocd"}
                  /\ garbled' = (garbled \/ r.garbled)
                  /\ IF r.ok
                       THEN /\ eocdh' = r.v
                            /\ cursor' = r.pos
                            /\ pc' = "eocd"
                            /\ UNCHANGED <<err, handle, openCursor>>
                       ELSE /\ OpenFails(r.err)
                            /\ cursor' = Max(cursor, StreamLen(source))
                            /\ UNCHANGED eocdh
    /\ UNCHANGED <<inputs, matched, comment, entries, left, afterOpen>>

IsSpannedDisksOnly(e) == e.disk_num # e.start_cent_dir_disk

\* eocdh.disk_num != eocdh.start_cent_dir_disk
\*   || eocdh.num_of_entries != eocdh.num_of_entries_disk
IsSpanned(e) ==
    \/ e.disk_num # e.start_cent_dir_disk
    \/ e.num_of_entries # e.num_of_entries_disk

SpannedCheck ==
    /\ pc = "eocd"
    /\ IF IsSpanned(eocdh)
         THEN OpenFails("FeatureNotSupported")
         ELSE /\ pc' = "comment"
              /\ UNCHANGED <<err, handle, openCursor>>
    /\ UNCHANGED <<inputs, cursor, matched, eocdh, comment, entries, left, io,
                   afterOpen, garbled>>

\* if eocdh.file_comm_length > 0 { comment = Some(read_string(..)?) }
ReadComment ==
    /\ pc = "comment"
    /\ IF eocdh.file_comm_length > 0
         THEN LET r == ReadString(source, cursor, eocdh.file_comm_length)
              IN  /\ io' = io \cup {"read_comment"}
                  /\ garbled' = (garbled \/ r.garbled)
                  /\ IF r.ok
                       THEN /\ comment' = Some(r.v)
                            /\ cursor' = r.pos
                            /\ pc' = "seekcd"
                            /\ UNCHANGED <<err, handle, openCursor>>
                       ELSE /\ OpenFails(r.err)
                            /\ cursor' = Max(cursor, StreamLen(source))
                            /\ UNCHANGED comment
         ELSE /\ pc' = "seekcd"
              /\ UNCHANGED <<comment, cursor, io, garbled, err, handle, openCursor>>
    /\ UNCHANGED <<inputs, matched, eocdh, entries, left, afterOpen>>

\* reader.seek(Start(cent_dir_offset)); entries = Vec::with_capacity(..)
SeekDirectory ==
    /\ pc = "seekcd"
    /\ cursor' = eocdh.cent_dir_offset
    /\ entries' = <<>>
    /\ left' = eocdh.num_of_entries
    /\ io' = io \cup {"seek_cd"}
    /\ pc' = "entries"
    /\ UNCHANGED <<inputs, matched, eocdh, comment, handle, err, afterOpen,
                   openCursor, garbled>>

\* read_cd_entry: one directory-entry record at p, as a ZipEntry.
ReadCdEntry(src, p) ==
    LET s == AssertSignature(src, p, CENTRAL_DIRECTORY_FILE_HEADER)
        h == CdhFromReader(src, s.pos)
        filename == ReadString(src, h.pos, h.v.file_name_length)
        extra == ReadBytes(src, filename.pos, h.v.extra_field_length)
        cmt == ReadString(src, extra.pos, h.v.file_comment_length)
        compression == CompressionFromU16(h.v.compression)
    IN  IF ~s.ok THEN s
        ELSE IF ~h.ok THEN h
        ELSE IF ~filename.ok THEN [filename EXCEPT !.garbled = h.garbled]
        ELSE IF ~extra.ok THEN [extra EXCEPT !.garbled = h.garbled \/ filename.garbled]
        ELSE IF ~cmt.ok THEN [cmt EXCEPT !.garbled = h.garbled \/ filename.garbled]
        ELSE IF ~compression.ok
               THEN [compression EXCEPT
                        !.garbled = h.garbled \/ filename.garbled \/ cmt.garbled]
        ELSE [ok |-> TRUE, err |-> "", pos |-> cmt.pos,
              garbled |-> h.garbled \/ filename.garbled \/ cmt.garbled,
              v |-> [name |-> filename.v,
                     comment |-> Some(cmt.v),
                     data_descriptor |-> h.v.data_descriptor,
                     crc32 |-> h.v.crc,
                     uncompressed_size |-> h.v.uncompressed_size,
                     compressed_size |-> h.v.compressed_size,
                     last_modified |-> <<h.v.mod_date, h.v.mod_time>>,
                     extra |-> extra.v,
                     compression |-> compression.v,
                     offset |-> h.v.lh_offset]]

\* A loop body that stops at a record that fails to decode and keeps the rest.
ReadCdEntryStepLenient ==
    /\ pc = "entries"
    /\ left > 0
    /\ LET r == ReadCdEntry(source, cursor)
       IN  /\ garbled' = (garbled \/ r.garbled)
           /\ IF r.ok
                THEN /\ entries' = Append(entries, r.v)
                     /\ cursor' = r.pos
                     /\ left' = left - 1
                ELSE /\ left' = 0
                     /\ cursor' = Max(cursor, StreamLen(source))
                     /\ UNCHANGED entries
           /\ pc' = "entries"
           /\ UNCHANGED <<err, handle, openCursor>>
    /\ io' = io \cup {"read_cd_entry"}
    /\ UNCHANGED <<inputs, matched, eocdh, comment, afterOpen>>

\* for _ in 0..num_of_entries { entries.push(read_cd_entry(reader).await?) }
ReadCdEntryStep ==
    /\ pc = "entries"
    /\ left > 0
    /\ LET r == ReadCdEntry(source, cursor)
       IN  /\ garbled' = (garbled \/ r.garbled)
           /\ IF r.ok
                THEN /\ entries' = Append(entries, r.v)
                     /\ cursor' = r.pos
                     /\ left' = left - 1
                     /\ pc' = "entries"
                     /\ UNCHANGED <<err, handle, openCursor>>
                ELSE /\ OpenFails(r.err)
                     /\ cursor' = Max(cursor, StreamLen(source))
                     /\ UNCHANGED <<entries, left>>
    /\ io' = io \cup {"read_cd_entry"}
    /\ UNCHANGED <<inputs, matched, eocdh, comment, afterOpen>>

\* Ok((entries, comment)), and new wraps them with the reader into the handle.
ReturnHandle ==
    /\ pc = "entries"
    /\ left = 0
    /\ handle' = [open |-> TRUE, entries |-> entries, comment |-> comment]
    /\ openCursor' = cursor
    /\ pc' = "open"
    /\ UNCHANGED <<inputs, cursor, matched, eocdh, comment, entries, left, err, io,
                   afterOpen, garbled>>

\* ------------------------------------------------------------ the handle

\* The first index (from 0) at or after i whose entry has the name.
RECURSIVE FirstNamed(_, _, _)
FirstNamed(es, name, i) ==
    IF i >= Len(es) THEN -1
    ELSE IF es[i + 1].name = name THEN i
    ELSE FirstNamed(es, name, i + 1)

EntryLast(es, name) ==
    LET S == {i \in 0..(Len(es) - 1) : es[i + 1].name = name}
    IN  IF S = {} THEN [found |-> FALSE, index |-> 0]
        ELSE [found |-> TRUE, index |-> SetMax(S)]

\* ZipFileReader::entry: Some((index, entry)) of the first match, or None.
Entry(es, name) ==
    LET i == FirstNamed(es, name, 0)
    IN  IF i = -1 THEN [found |-> FALSE, index |-> 0]
        ELSE [found |-> TRUE, index |-> i]

LookupNames == {Str("a", 1), Str("b", 1), Str("L", U16Max), Str("zz", 2), EmptyStr}

\* A call of entry(name) on the handle: it takes &self and changes nothing.
EntryCall ==
    /\ pc = "open"
    /\ ~rd.open
    /\ \E name \in LookupNames :
         LET r == Entry(handle.entries, name)
         IN  lookup' = [asked |-> TRUE, name |-> name, found |-> r.found,
                        index |-> r.index]
    /\ last' = [NoCall EXCEPT !.op = "entry"]
    /\ err' = ""
    /\ io' = {}
    /\ UNCHANGED <<inputs, pc, cursor, matched, eocdh, comment, entries, left,
                   handle, rd, openCursor, garbled>>

\* take(u64::MAX): a limit no source reaches.
NoLimit == -1

GetEntryWrapping(es, index) ==
    IF es = <<>> THEN [ok |-> FALSE, v |-> 0]
    ELSE [ok |-> TRUE, v |-> es[(index % Len(es)) + 1]]

\* self.inner.entries.get(index)
GetEntry(es, index) ==
    IF index < Len(es) THEN [ok |-> TRUE, v |-> es[index + 1]]
    ELSE [ok |-> FALSE, v |-> 0]

LocalHeaderSeekRelative(cur, entry) == cur + entry.offset + SigWidth

\* seek(SeekFrom::Start(entry.offset.unwrap() as u64 + 4))
LocalHeaderSeek(cur, entry) == entry.offset + SigWidth

\* header.file_name_length + header.extra_field_length, both u16: the sum
\* overflows above u16::MAX, which panics in a build with overflow checks and
\* wraps in one without.
Overflows(header) == header.file_name_length + header.extra_field_length > U16Max

\* (header.file_name_length + header.extra_field_length) as i64
DataOffset(header) ==
    (header.file_name_length + header.extra_field_length) % (U16Max + 1)

RawReaderFromLocal(entry, header) ==
    IF header.data_descriptor
      THEN [mode |-> "delimiter", limit |-> NoLimit]
      ELSE [mode |-> "take", limit |-> header.compressed_size]

\* The branch on entry.data_descriptor(): the reader under the decompressor.
RawReader(entry, header) ==
    IF entry.data_descriptor
      THEN [mode |-> "delimiter", limit |-> NoLimit]
      ELSE [mode |-> "take", limit |-> entry.compressed_size]

\* entry_reader(index) called with the source's seek position at cur.
EntryReader(src, es, index, cur, bld) ==
    LET e == GetEntry(es, index)
        p1 == LocalHeaderSeek(cur, e.v)
        h == LfhFromReader(src, p1)
        p2 == h.pos + DataOffset(h.v)
        raw == RawReader(e.v, h.v)
    IN  IF ~e.ok
          THEN [status |-> "err", err |-> "EntryIndexOutOfBounds", cursor |-> cur,
                io |-> {}, rd |-> NoReader, garbled |-> FALSE]
        ELSE IF ~h.ok
          THEN [status |-> "err", err |-> h.err,
                cursor |-> Max(p1, StreamLen(src)),
                io |-> {"seek", "read_lfh"}, rd |-> NoReader, garbled |-> FALSE]
        ELSE IF Overflows(h.v) /\ bld = "debug"
          THEN [status |-> "panic", err |-> "", cursor |-> h.pos,
                io |-> {"seek", "read_lfh"}, rd |-> NoReader, garbled |-> h.garbled]
        ELSE [status |-> "ok", err |-> "", cursor |-> p2,
              io |-> {"seek", "read_lfh", "seek_data"},
              rd |-> [open |-> TRUE, index |-> index, mode |-> raw.mode,
                      limit |-> raw.limit, from |-> p2, got |-> 0, done |-> FALSE],
              garbled |-> h.garbled]

Indexes == 0..MaxEntries

\* A call of entry_reader(index) on the handle.
EntryReaderCall ==
    /\ pc = "open"
    /\ ~rd.open
    /\ \E index \in Indexes :
         LET r == EntryReader(source, handle.entries, index, cursor, build)
         IN  /\ cursor' = r.cursor
             /\ err' = r.err
             /\ io' = r.io
             /\ rd' = r.rd
             /\ garbled' = (garbled \/ r.garbled)
             /\ pc' = IF r.status = "panic" THEN "panicked" ELSE "open"
             /\ last' = [op |-> "entry_reader", index |-> index,
                         prev |-> IF last.op = "entry_reader" THEN last.index ELSE -1,
                         moved |-> (r.cursor # cursor),
                         afterOutOfBounds |->
                             (last.op = "entry_reader"
                              /\ err = "EntryIndexOutOfBounds")]
    /\ lookup' = NoLookup
    /\ UNCHANGED <<inputs, matched, eocdh, comment, entries, left, handle,
                   openCursor>>

\* The buffers the caller reads the entry with: byte by byte at first, or whole.
ReadWants == {SUGGESTED_BUFFER_SIZE} \cup (IF rd.got < MaxByteReads THEN {1} ELSE {})

\* One read of the raw bytes under the decompressor, the stream being at
\* offset p: Take over the source, or Take over the scanner for the descriptor
\* signature.  The scanner fills its buffer from the source, so the source may
\* be left anywhere from the last byte handed out to the end of that buffer.
RawRead(src, p, r, want) ==
    IF r.mode = "take"
      THEN LET n == Min(want, Min(r.limit - r.got, Max(StreamLen(src) - p, 0)))
           IN  [n |-> n, left |-> {p + n}]
      ELSE LET d == DelimRead(src, p, DATA_DESCRIPTOR, want)
           IN  [n |-> d.n, left |-> {d.pos, Max(d.pos, Min(StreamLen(src), p + want))}]

\* The decompressor pulls raw bytes; a read of 0 bytes ends the payload.
StreamRead ==
    /\ pc = "open"
    /\ rd.open
    /\ ~rd.done
    /\ \E want \in ReadWants :
         LET r == RawRead(source, rd.from + rd.got, rd, want)
         IN  /\ \E at \in r.left : cursor' = Max(cursor, at)
             /\ rd' = [rd EXCEPT !.got = @ + r.n, !.done = (r.n = 0)]
    /\ io' = io \cup {"read_data"}
    /\ UNCHANGED <<inputs, pc, matched, eocdh, comment, entries, left, handle, err,
                   last, lookup, openCursor, garbled>>

\* The ZipEntryReader is dropped, consumed or not: the borrow of the source ends.
StreamDrop ==
    /\ pc = "open"
    /\ rd.open
    /\ rd' = NoReader
    /\ UNCHANGED <<inputs, pc, cursor, matched, eocdh, comment, entries, left,
                   handle, err, io, last, lookup, openCursor, garbled>>

\* ------------------------------------------------------------ specification

Next ==
    \/ SeekToWindow
    \/ ScanRead
    \/ TrailerDecode
    \/ SpannedCheck
    \/ ReadComment
    \/ SeekDirectory
    \/ ReadCdEntryStep
    \/ ReturnHandle
    \/ EntryCall
    \/ EntryReaderCall
    \/ StreamRead
    \/ StreamDrop

Spec == Init /\ [][Next]_vars

\* new is a future that is polled to completion: while read_cd locates the
\* trailer, each step that can be taken is taken.
Locate ==
    \/ SeekToWindow
    \/ ScanRead
    \/ TrailerDecode

FairSpec == Spec /\ WF_vars(Locate)

\* No decoder is run on bytes that are neither its record nor zero bytes.
Aligned == ~garbled

\* ------------------------------------------------------------ claims

TrailerOffsets == SigOffsets(source, END_OF_CENTRAL_DIRECTORY, 0)

\* The writer wrote a single-volume archive with every record intact, and the
\* trailer signature occurs once in the source.
WellFormed ==
    /\ written.raw < 0
    /\ written.trailer
    /\ written.badAt = 0
    /\ written.extraCount = 0
    /\ written.onDiskDelta = 0
    /\ written.disk = written.start
    /\ Cardinality(TrailerOffsets) = 1

Returned == pc \in {"open", "failed", "panicked"}

\* C1: for every well-formed single-volume archive whose trailer comment is n
\* bytes long, 0 <= n <= 65535, new succeeds, and comment() is None when n = 0
\* and the n-byte text when n > 0.
C1_EveryCommentLengthOpens ==
    (WellFormed /\ Returned) =>
        /\ handle.open
        /\ handle.comment = IF written.clen = 0 THEN None
                            ELSE Some(Str("comment", written.clen))

\* The entry the writer put at place k (from 1) of the directory.
WrittenEntry(k) ==
    LET t == Templates[written.ents[k]]
    IN  [name |-> Str(t.name, t.nameLen), offset |-> LocalOffset(written.ents, k),
         compressed_size |-> t.dirCsize, data_descriptor |-> t.dd]

\* The trailer the reader decoded is the one the writer ended the source with.
ReadWrittenTrailer ==
    /\ written.raw < 0
    /\ written.trailer
    /\ eocdh.cent_dir_offset = SegsLen(LocalPart(written.ents))
    /\ eocdh.num_of_entries = Len(written.ents) + written.extraCount

Damaged == written.badAt > 0 \/ written.extraCount > 0

\* C2: new returns a handle whose entry list holds exactly the trailer's count
\* of entries, in the order of the records on disk, or an error and no handle;
\* when a record fails to decode, no shorter list is exposed.
C2_AllEntriesOrNone ==
    /\ pc = "failed" => (~handle.open /\ handle.entries = <<>> /\ err # "")
    /\ handle.open =>
         /\ Len(handle.entries) = eocdh.num_of_entries
         /\ ReadWrittenTrailer =>
              /\ ~Damaged
              /\ \A k \in 1..Len(handle.entries) :
                   /\ handle.entries[k].name = WrittenEntry(k).name
                   /\ handle.entries[k].offset = WrittenEntry(k).offset
                   /\ handle.entries[k].compressed_size = WrittenEntry(k).compressed_size
    /\ (ReadWrittenTrailer /\ Damaged /\ Returned) => pc = "failed"

\* The last record of two fails to decode after the first one has decoded.
C2_Witness ==
    /\ pc = "failed"
    /\ written.badAt = 2
    /\ Len(entries) = 1
    /\ ~handle.open

\* What entry_reader(index) gives on the handle as new returned it.
Fresh(index) == EntryReader(source, handle.entries, index, openCursor, build)

\* The count of raw bytes a reader yields when it is read to its end.
FullExtent(r) ==
    IF r.mode = "take" THEN Min(r.limit, Max(source.len - r.from, 0))
    ELSE LET S == SigOffsets(source, DATA_DESCRIPTOR, r.from)
         IN  (IF S = {} THEN Max(source.len, r.from) ELSE SetMin(S)) - r.from

\* C3: whatever was opened before, and however far it was read, the stream of
\* index i is the one a freshly opened handle gives for i: the same error or
\* the same bytes.
C3_OutputDependsOnIndexOnly ==
    (last.op = "entry_reader") =>
        /\ err = Fresh(last.index).err
        /\ (pc = "panicked") = (Fresh(last.index).status = "panic")
        /\ rd.open =>
             /\ rd.index = last.index
             /\ Fresh(rd.index).status = "ok"
             /\ rd.from = Fresh(rd.index).rd.from
             /\ rd.mode = Fresh(rd.index).rd.mode
             /\ rd.limit = Fresh(rd.index).rd.limit
             /\ rd.got <= FullExtent(Fresh(rd.index).rd)
             /\ rd.done => rd.got = FullExtent(Fresh(rd.index).rd)

\* The same index is opened a second time in succession and read to its end.
C3_Witness ==
    /\ rd.open
    /\ rd.done
    /\ rd.got > 0
    /\ last.prev = last.index
    /\ cursor # openCursor

NoTrailerSignature == TrailerOffsets = {}

\* C4: on a source that holds the trailer signature nowhere, of any length,
\* new ends with the missing-trailer error, and decodes no trailer record and
\* no directory entry.
C4_MissingTrailerFails ==
    /\ [](NoTrailerSignature =>
            /\ io \cap {"read_eocd", "read_comment", "seek_cd", "read_cd_entry"} = {}
            /\ pc \in {"new", "scan", "scanned", "failed"}
            /\ (pc = "failed" => err = "UnexpectedHeaderError"))
    /\ (NoTrailerSignature => <>(pc = "failed"))

\* new has failed on a source of zero bytes shorter than the scan window.
C4_Witness ==
    /\ NoTrailerSignature
    /\ pc = "failed"
    /\ source.len > 0
    /\ source.len < MAX_ENDING_LENGTH

\* C5: when the trailer's disk numbers differ, or its entry counts differ, new
\* fails with the unsupported-feature error before the comment is read, before
\* the seek to the directory and before any directory entry is decoded; when
\* both pairs are equal the error is never raised.
C5_SpannedRejectedFirst ==
    LET differ == \/ eocdh.disk_num # eocdh.start_cent_dir_disk
                  \/ eocdh.num_of_entries # eocdh.num_of_entries_disk
        pastCheck == \/ pc \in {"comment", "seekcd", "entries", "open", "panicked"}
                     \/ (pc = "failed" /\ io \cap {"read_comment", "seek_cd"} # {})
    IN  /\ pastCheck => (~differ /\ err # "FeatureNotSupported")
        /\ (err = "FeatureNotSupported") =>
             /\ pc = "failed"
             /\ differ
             /\ io = {"seek", "read", "read_eocd"}
             /\ comment = None
             /\ entries = <<>>
             /\ cursor + eocdh.file_comm_length = source.len
        /\ (differ /\ "read_eocd" \in io /\ pc # "eocd") =>
             (pc = "failed" /\ err = "FeatureNotSupported")

\* The disk numbers agree and the entry counts differ; a comment follows.
C5_Witness ==
    /\ err = "FeatureNotSupported"
    /\ eocdh.disk_num = eocdh.start_cent_dir_disk
    /\ eocdh.file_comm_length > 0

\* C6: entry_reader(index) with index >= entries().len() fails with the
\* index-out-of-bounds error without a seek or a read of the source, leaves the
\* entry list and the comment as they were, and the next entry_reader with a
\* valid index gives what it gives on a fresh handle.
C6_OutOfBoundsIsHarmless ==
    /\ (last.op = "entry_reader" /\ last.index >= Len(handle.entries)) =>
         /\ pc = "open"
         /\ err = "EntryIndexOutOfBounds"
         /\ io = {}
         /\ ~last.moved
         /\ ~rd.open
         /\ handle = [open |-> TRUE, entries |-> entries, comment |-> comment]
    /\ (last.op = "entry_reader" /\ last.afterOutOfBounds
          /\ last.index < Len(handle.entries)) =>
         /\ err = Fresh(last.index).err
         /\ (pc = "panicked") = (Fresh(last.index).status = "panic")
         /\ rd.open =>
              /\ rd.from = Fresh(last.index).rd.from
              /\ rd.mode = Fresh(last.index).rd.mode
              /\ rd.limit = Fresh(last.index).rd.limit
              /\ rd.done => rd.got = FullExtent(Fresh(last.index).rd)
         /\ handle = [open |-> TRUE, entries |-> entries, comment |-> comment]

\* A valid index is opened right after a call that was out of bounds, and read
\* to its end.
C6_Witness ==
    /\ last.op = "entry_reader"
    /\ last.afterOutOfBounds
    /\ last.prev >= Len(handle.entries)
    /\ rd.open
    /\ rd.done
    /\ rd.got > 0

\* The directory copy of the entry the open stream reads.
Opened == handle.entries[rd.index + 1]

\* Where the raw bytes of a stream over the descriptor signature end.
DescriptorStop ==
    LET S == SigOffsets(source, DATA_DESCRIPTOR, rd.from)
    IN  IF S = {} THEN Max(source.len, rd.from) ELSE SetMin(S)

\* C7 as stated: without the flag the raw stream is exactly the compressed_size
\* bytes of the directory entry from the payload start; with the flag it ends
\* before the first descriptor signature, or at the end of the source.
C7_ExtentIsCompressedSize ==
    (rd.open /\ rd.done) =>
        IF Opened.data_descriptor
          THEN rd.from + rd.got = DescriptorStop
          ELSE rd.got = Opened.compressed_size

\* C7, amended: without the flag the raw stream is the compressed_size bytes of
\* the directory entry from where the skip left the source, or the bytes up to
\* the end of the source when fewer remain, and never a byte beyond; with
\* the flag it ends before the first descriptor signature, or at the end of the
\* source; the sizes of the local record and, with the flag, the sizes of the
\* directory decide nothing.
C7_ExtentFromDirectory ==
    rd.open =>
        IF Opened.data_descriptor
          THEN /\ rd.mode = "delimiter"
               /\ rd.from + rd.got <= DescriptorStop
               /\ rd.done => rd.from + rd.got = DescriptorStop
          ELSE /\ rd.mode = "take"
               /\ cursor = rd.from + rd.got
               /\ rd.got <= Opened.compressed_size
               /\ rd.done =>
                    rd.got = Min(Opened.compressed_size, Max(source.len - rd.from, 0))

\* A stream without the flag was read to its end, and the local record holds
\* another size than the directory.
C7_Witness ==
    /\ rd.open
    /\ rd.done
    /\ ~Opened.data_descriptor
    /\ rd.got = Opened.compressed_size
    /\ rd.got > 0
    /\ LfhFromReader(source, Opened.offset + SigWidth).v.compressed_size
         # Opened.compressed_size

\* The indexes (from 0) of the entries of the handle with the name asked for.
Named == {i \in 0..(Len(handle.entries) - 1) : handle.entries[i + 1].name = lookup.name}

\* C8: entry(name) returns the smallest index whose entry has the name, also
\* when several entries have it, and None exactly when none has; the entry
\* list stays as it is.
C8_FirstMatchWins ==
    lookup.asked =>
        /\ lookup.found = (Named # {})
        /\ lookup.found => \A i \in Named : lookup.index <= i
        /\ lookup.found => lookup.index \in Named
        /\ handle = [open |-> TRUE, entries |-> entries, comment |-> comment]

\* Two entries have the name that was asked for.
C8_Witness ==
    /\ lookup.asked
    /\ lookup.found
    /\ Cardinality(Named) >= 2

\* The local record of the entry the last entry_reader call asked for.
LastLocal == LfhFromReader(source, handle.entries[last.index + 1].offset + SigWidth)

\* C9: after the local record is decoded and its variable fields are skipped,
\* the cursor is at local_header_offset + 4 + fixed_local_record_size
\* + name_length + extra_length, for every pair of 16-bit lengths.
C9_CursorAtPayloadStart ==
    (last.op = "entry_reader" /\ last.index < Len(handle.entries) /\ LastLocal.ok) =>
        /\ pc # "panicked"
        /\ rd.open =>
             rd.from = handle.entries[last.index + 1].offset + SigWidth + LfhFixedSize
                       + LastLocal.v.file_name_length + LastLocal.v.extra_field_length

\* The occurrences of the trailer signature in the scan window.
InWindow ==
    SigOffsets(source, END_OF_CENTRAL_DIRECTORY,
               Max(source.len - MAX_ENDING_LENGTH, 0))

\* C10: the trailer record read_cd decodes is the one after the first
\* occurrence of the trailer signature in the window; with an earlier
\* occurrence ahead of the archive's trailer, the entry count, the directory
\* offset and the comment are those of the earlier one.
C10_FirstOccurrenceWins ==
    (pc \in {"eocd", "comment", "seekcd", "entries", "open", "panicked"}) =>
        /\ InWindow # {}
        /\ LET first == EocdFromReader(source, SetMin(InWindow) + SigWidth)
           IN  /\ first.ok
               /\ eocdh = first.v
               /\ handle.open =>
                    /\ Len(handle.entries) = first.v.num_of_entries
                    /\ (handle.comment = None) = (first.v.file_comm_length = 0)

\* The window holds two occurrences, and the handle has the entries of the
\* earlier one: none, where the archive's own trailer counts one.
C10_Witness ==
    /\ handle.open
    /\ Cardinality(InWindow) >= 2
    /\ handle.entries = <<>>
    /\ Len(written.ents) = 1

====
